---- MODULE Spec2Model ----
(***************************************************************************)
(* Columnar<ColumnTypes...>: a fixed-schema table loaded from a CSV file   *)
(* (try_read_from_csv), read through column views and rows, and filtered   *)
(* into new tables (filter).                                               *)
(*                                                                         *)
(* A std::string is a sequence of one-character strings.  The source file  *)
(* is read line by line: `file` is the sequence of lines std::getline has  *)
(* delivered so far (header first); the next line is chosen when it is     *)
(* read.                                                                   *)
(***************************************************************************)
EXTENDS Integers, Sequences, FiniteSets, TLC

\* ------------------------------------------------------------------ bounds
MaxLineLen == 3
MaxLines == 2
MaxRowLen == 4

\* ------------------------------------------------------- program constants
kCsvDelimiter == ","

\* std::numeric_limits<int8_t>: the integral column type of the model.
Int8Min == -128
Int8Max == 127

\* FLT_MAX = 3.4028235e38 and FLT_MIN = 1.1754944e-38: their 8-digit decimal
\* mantissas and their decimal exponent (38 and -38).
FltMaxMant == 34028235
FltMinMant == 11754944
FltMaxExp == 38
FltDigits == 8

\* --------------------------------------------------------------- alphabets
LineChars == {",", "1", " "}
RowChars == {",", "1", "9", "-", ".", "e", " ", "n", "a"}

Strings(chars, n) == UNION {[1..k -> chars] : k \in 0..n}

\* The first lines tried: empty, "a", "a,b", "a,a", "a,b,", "a,b,c".
HeaderLines ==
    {<<>>, <<"a">>, <<"a", ",", "b">>, <<"a", ",", "a">>,
     <<"a", ",", "b", ",">>, <<"a", ",", "b", ",", "c">>}
DataLines == Strings(LineChars, MaxLineLen)
\* The data lines of the tables read through the accessors: empty, "1,1",
\* "1, ", ",1", " ,1", "1".
AccessLines ==
    {<<>>, <<"1", ",", "1">>, <<"1", ",", " ">>, <<",", "1">>, <<" ", ",", "1">>, <<"1">>}
RowLines == Strings(RowChars, MaxRowLen)

\* The instantiations Columnar<int8_t, std::string>, Columnar<std::string,
\* float>, Columnar<float, int8_t>: every column type at every position.
Schemas == {<<"int8", "string">>, <<"string", "float">>, <<"float", "int8">>}
\* Columnar<int8_t>, Columnar<float>, Columnar<std::string>,
\* Columnar<int8_t, int8_t>.
RowSchemas == {<<"int8">>, <<"float">>, <<"string">>, <<"int8", "int8">>}
TypeNames == {"int8", "float", "string"}

\* ------------------------------------------------------------------ state
VARIABLES
    ColumnTypes,  \* the template arguments of this Columnar
    pc,           \* position in try_read_from_csv: open, header, rows, returned; then done
    file,         \* the lines std::getline(file, line) has returned
    result,       \* the table try_read_from_csv is building
    ret,          \* what try_read_from_csv returned
    df,           \* the table the caller holds
    fret,         \* what the caller's last filter call returned
    fcall,        \* the caller's last call if it was a filter: the table
                  \* filtered, the arguments, the predicate's calls and outcomes
    acall         \* the caller's last call if it was an accessor, and what it returned

vars == <<ColumnTypes, pc, file, result, ret, df, fret, fcall, acall>>

kColumnCount == Len(ColumnTypes)

\* ------------------------------------------------------- characters, text
DigitValue(c) ==
    CASE c = "0" -> 0 [] c = "1" -> 1 [] c = "2" -> 2 [] c = "3" -> 3
      [] c = "4" -> 4 [] c = "5" -> 5 [] c = "6" -> 6 [] c = "7" -> 7
      [] c = "8" -> 8 [] c = "9" -> 9

\* s[from..to-1], the empty string when from >= to.
Slice(s, from, to) == [k \in 1..(IF to > from THEN to - from ELSE 0) |-> s[from + k - 1]]

\* std::isspace in the "C" locale (the vertical tab has no TLA+ escape).
SpaceChars == {" ", "\t", "\n", "\r", "\f"}
DigitChars == {"0", "1", "2", "3", "4", "5", "6", "7", "8", "9"}

\* First index >= from whose character is in chars, Len(s)+1 when none.
RECURSIVE ScanUntil(_, _, _)
ScanUntil(s, from, chars) ==
    IF from > Len(s) \/ s[from] \in chars THEN from ELSE ScanUntil(s, from + 1, chars)

\* First index >= from whose character is not in chars, Len(s)+1 when none.
RECURSIVE ScanWhile(_, _, _)
ScanWhile(s, from, chars) ==
    IF from > Len(s) \/ s[from] \notin chars THEN from ELSE ScanWhile(s, from + 1, chars)

\* Value of a run of decimal digits (0 for the empty run).
RECURSIVE DigitsValue(_)
DigitsValue(ds) ==
    IF ds = <<>> THEN 0
    ELSE 10 * DigitsValue(SubSeq(ds, 1, Len(ds) - 1)) + DigitValue(ds[Len(ds)])

\* ------------------------------------------------------------ Expected<T,E>
Value(v) == [has_value |-> TRUE, value |-> v, error |-> "none"]
Error(e) == [has_value |-> FALSE, value |-> <<>>, error |-> e]
NoReturn == [has_value |-> FALSE, value |-> <<>>, error |-> "pending"]

\* ------------------------------------------------------- std::istringstream
\* pos is the index of the next character to extract.
IStringStream(str) == [buf |-> str, pos |-> 1, eofbit |-> FALSE, failbit |-> FALSE]

\* std::getline(is, str, delim): nothing is extracted from a stream that is
\* not good; otherwise characters up to the delimiter (extracted, not
\* stored) or to the end (eofbit); failbit when no character was extracted.
Getline(is, delim) ==
    IF is.eofbit \/ is.failbit
    THEN [ok |-> FALSE, str |-> <<>>, is |-> [is EXCEPT !.failbit = TRUE]]
    ELSE LET stop == ScanUntil(is.buf, is.pos, {delim})
         IN IF stop <= Len(is.buf)
            THEN [ok |-> TRUE, str |-> Slice(is.buf, is.pos, stop),
                  is |-> [is EXCEPT !.pos = stop + 1]]
            ELSE [ok |-> is.pos <= Len(is.buf),
                  str |-> Slice(is.buf, is.pos, stop),
                  is |-> [is EXCEPT !.pos = stop, !.eofbit = TRUE,
                                    !.failbit = (is.pos > Len(is.buf))]]

\* is >> str: skips leading whitespace, then extracts up to the next
\* whitespace; fails when the stream is not good or only whitespace is left.
Extract(is) ==
    IF is.eofbit \/ is.failbit
    THEN [ok |-> FALSE, str |-> <<>>, is |-> [is EXCEPT !.failbit = TRUE]]
    ELSE LET start == ScanWhile(is.buf, is.pos, SpaceChars)
             stop == ScanUntil(is.buf, start, SpaceChars)
         IN IF start > Len(is.buf)
            THEN [ok |-> FALSE, str |-> <<>>,
                  is |-> [is EXCEPT !.pos = start, !.eofbit = TRUE, !.failbit = TRUE]]
            ELSE [ok |-> TRUE, str |-> Slice(is.buf, start, stop),
                  is |-> [is EXCEPT !.pos = stop, !.eofbit = (stop > Len(is.buf))]]

\* ------------------------------------------------------------- parse_value
\* std::from_chars(first, last, value) for a signed integral type: an
\* optional '-' (no '+', no whitespace skipped) and decimal digits.  ptr is
\* the index after the digits, or first when the pattern does not match.
FromChars(str) ==
    LET i == IF Len(str) >= 1 /\ str[1] = "-" THEN 2 ELSE 1
        j == ScanWhile(str, i, DigitChars)
        magnitude == DigitsValue(Slice(str, i, j))
        value == IF i = 2 THEN 0 - magnitude ELSE magnitude
    IN IF j = i THEN [ptr |-> 1, ec |-> "invalid_argument", value |-> 0]
       ELSE IF value < Int8Min \/ value > Int8Max
            THEN [ptr |-> j, ec |-> "result_out_of_range", value |-> 0]
            ELSE [ptr |-> j, ec |-> "ok", value |-> value]

\* Mutant of ParseIntegral: only ec is checked, not that ptr reached the end.
ParseIntegralPrefix(str) ==
    LET r == FromChars(str)
    IN IF r.ec # "ok" THEN Error("ParseError") ELSE Value(r.value)

\* parse_value<T> for std::integral T.
ParseIntegral(str) ==
    LET r == FromChars(str)
    IN IF r.ec # "ok" \/ r.ptr # Len(str) + 1 THEN Error("ParseError") ELSE Value(r.value)

RECURSIVE Pow10(_)
Pow10(n) == IF n <= 0 THEN 1 ELSE 10 * Pow10(n - 1)

RECURSIVE NumDigits(_)
NumDigits(n) == IF n < 10 THEN 1 ELSE 1 + NumDigits(n \div 10)

\* A finite floating-point value mant * 10^exp, mant without trailing zeros.
RECURSIVE Decimal(_, _)
Decimal(mant, exp) ==
    IF mant = 0 THEN [mant |-> 0, exp |-> 0, nan |-> FALSE]
    ELSE IF mant % 10 = 0 THEN Decimal(mant \div 10, exp + 1)
    ELSE [mant |-> mant, exp |-> exp, nan |-> FALSE]

NaN == [mant |-> 0, exp |-> 0, nan |-> TRUE]

\* The first FltDigits significant digits of a positive mantissa.
Leading(mant) ==
    LET d == NumDigits(mant)
    IN IF d <= FltDigits THEN mant * Pow10(FltDigits - d) ELSE mant \div Pow10(d - FltDigits)

\* errno == ERANGE after strtof: the magnitude is above FLT_MAX, or it is not
\* zero and below FLT_MIN (glibc reports the underflow too).
OutOfFloatRange(v) ==
    LET m == IF v.mant < 0 THEN 0 - v.mant ELSE v.mant
        sci == NumDigits(m) - 1 + v.exp
    IN /\ ~v.nan
       /\ m # 0
       /\ \/ sci > FltMaxExp
          \/ sci = FltMaxExp /\ Leading(m) > FltMaxMant
          \/ sci < 0 - FltMaxExp
          \/ sci = 0 - FltMaxExp /\ Leading(m) < FltMinMant

\* The numeral strtof finds at index i (after whitespace and sign): the
\* digits before and after an optional '.', then an exponent, which is
\* taken only when 'e' is followed by an optional sign and a digit.
ScanExponent(str, mantEnd) ==
    LET signed == mantEnd + 1 <= Len(str) /\ str[mantEnd + 1] \in {"-", "+"}
        expStart == IF signed THEN mantEnd + 2 ELSE mantEnd + 1
        expEnd == ScanWhile(str, expStart, DigitChars)
    IN IF mantEnd <= Len(str) /\ str[mantEnd] \in {"e", "E"} /\ expEnd > expStart
       THEN [end |-> expEnd,
             exp |-> IF signed /\ str[mantEnd + 1] = "-"
                     THEN 0 - DigitsValue(Slice(str, expStart, expEnd))
                     ELSE DigitsValue(Slice(str, expStart, expEnd))]
       ELSE [end |-> mantEnd, exp |-> 0]

ScanFraction(str, i, intEnd) ==
    LET fracStart == IF intEnd <= Len(str) /\ str[intEnd] = "." THEN intEnd + 1 ELSE intEnd
        fracEnd == ScanWhile(str, fracStart, DigitChars)
    IN [digits |-> Slice(str, i, intEnd) \o Slice(str, fracStart, fracEnd),
        scale |-> fracEnd - fracStart,
        end |-> fracEnd]

ScanNumeral(str, i, neg) ==
    LET m == ScanFraction(str, i, ScanWhile(str, i, DigitChars))
        e == ScanExponent(str, m.end)
    IN IF m.digits # <<>>
       THEN [end |-> e.end,
             value |-> Decimal(IF neg THEN 0 - DigitsValue(m.digits) ELSE DigitsValue(m.digits),
                               e.exp - m.scale)]
       ELSE IF i + 2 <= Len(str) /\ Slice(str, i, i + 3) \in {<<"n", "a", "n">>, <<"N", "A", "N">>}
            THEN [end |-> i + 3, value |-> NaN]
            ELSE [end |-> 1, value |-> Decimal(0, 0)]

\* std::strtof(str, &end): leading whitespace is skipped, then an optional
\* sign and the longest prefix that is a decimal numeral or "nan".  end is
\* the index after that prefix, 1 when nothing converts.  The other forms
\* strtof accepts ("inf", "infinity", "0x" hexadecimal, "nan(...)") need
\* characters outside the alphabets used here.
Strtof(str) ==
    LET ws == ScanWhile(str, 1, SpaceChars)
        signed == ws <= Len(str) /\ str[ws] \in {"-", "+"}
        n == ScanNumeral(str, IF signed THEN ws + 1 ELSE ws, signed /\ str[ws] = "-")
    IN [end |-> n.end, value |-> n.value, erange |-> OutOfFloatRange(n.value)]

\* parse_value<T> for std::floating_point T.
ParseFloating(str) ==
    LET r == Strtof(str)
    IN IF r.end = 1 \/ r.end # Len(str) + 1 THEN Error("ParseError")
       ELSE IF r.erange THEN Error("ParseError")
       ELSE Value(r.value)

\* parse_value<std::string>.
ParseString(str) == Value(str)

\* parse_value<T>(str), T the column's type.
parse_value(T, str) ==
    CASE T = "int8" -> ParseIntegral(str)
      [] T = "float" -> ParseFloating(str)
      [] T = "string" -> ParseString(str)

\* ------------------------------------------------------------------ table
\* A default-constructed Columnar: empty names, empty columns, no rows.
EmptyTable ==
    [names_ |-> [i \in 1..kColumnCount |-> <<>>],
     columns_ |-> [i \in 1..kColumnCount |-> <<>>],
     row_count_ |-> 0]

\* The header loop: one std::getline per name; col_idx counts the names
\* assigned; tooMany when a name is read with col_idx >= kColumnCount.
RECURSIVE HeaderLoop(_, _, _)
HeaderLoop(header_stream, names, col_idx) ==
    LET g == Getline(header_stream, kCsvDelimiter)
    IN IF ~g.ok THEN [tooMany |-> FALSE, names |-> names, col_idx |-> col_idx]
       ELSE IF col_idx >= kColumnCount
            THEN [tooMany |-> TRUE, names |-> names, col_idx |-> col_idx]
            ELSE HeaderLoop(g.is, [names EXCEPT ![col_idx + 1] = g.str], col_idx + 1)

\* Mutant of RowFold: the parsed value is put at the front of its column.
RECURSIVE RowFoldPushFront(_, _, _, _)
RowFoldPushFront(Is, row_stream, columns, success) ==
    IF Is > kColumnCount
    THEN [row_stream |-> row_stream, columns |-> columns, success |-> success]
    ELSE IF ~success THEN RowFoldPushFront(Is + 1, row_stream, columns, FALSE)
    ELSE LET g == Getline(row_stream, kCsvDelimiter)
             parsed == parse_value(ColumnTypes[Is], g.str)
         IN IF ~g.ok THEN RowFoldPushFront(Is + 1, g.is, columns, FALSE)
            ELSE IF ~parsed.has_value THEN RowFoldPushFront(Is + 1, g.is, columns, FALSE)
            ELSE RowFoldPushFront(Is + 1, g.is,
                                  [columns EXCEPT ![Is] = <<parsed.value>> \o @], TRUE)

\* Mutant of RowFold: the result of std::getline is not checked, the string
\* it left (empty) is parsed.
RECURSIVE RowFoldUncheckedGetline(_, _, _, _)
RowFoldUncheckedGetline(Is, row_stream, columns, success) ==
    IF Is > kColumnCount
    THEN [row_stream |-> row_stream, columns |-> columns, success |-> success]
    ELSE IF ~success THEN RowFoldUncheckedGetline(Is + 1, row_stream, columns, FALSE)
    ELSE LET g == Getline(row_stream, kCsvDelimiter)
             parsed == parse_value(ColumnTypes[Is], g.str)
         IN IF ~parsed.has_value
            THEN RowFoldUncheckedGetline(Is + 1, g.is, columns, FALSE)
            ELSE RowFoldUncheckedGetline(Is + 1, g.is,
                                         [columns EXCEPT ![Is] = Append(@, parsed.value)], TRUE)

\* The fold over the schema positions Is of one data line:
\* success = success && (getline, parse_value, push_back).  Once success is
\* false the remaining positions read nothing.
RECURSIVE RowFold(_, _, _, _)
RowFold(Is, row_stream, columns, success) ==
    IF Is > kColumnCount
    THEN [row_stream |-> row_stream, columns |-> columns, success |-> success]
    ELSE IF ~success THEN RowFold(Is + 1, row_stream, columns, FALSE)
    ELSE LET g == Getline(row_stream, kCsvDelimiter)
             parsed == parse_value(ColumnTypes[Is], g.str)
         IN IF ~g.ok THEN RowFold(Is + 1, g.is, columns, FALSE)
            ELSE IF ~parsed.has_value THEN RowFold(Is + 1, g.is, columns, FALSE)
            ELSE RowFold(Is + 1, g.is,
                         [columns EXCEPT ![Is] = Append(@, parsed.value)], TRUE)

\* One data line: the fold, then `row_stream >> value_str` finding more.
ParseRow(line, columns) ==
    LET f == RowFold(1, IStringStream(line), columns, TRUE)
    IN [columns |-> f.columns,
        parse_success |-> IF Extract(f.row_stream).ok THEN FALSE ELSE f.success]

\* ------------------------------------------------------- try_read_from_csv
\* std::ifstream file(filepath): the file opens or it does not.
Open ==
    /\ pc = "open"
    /\ \E is_open \in BOOLEAN :
          IF is_open
          THEN pc' = "header" /\ ret' = ret
          ELSE pc' = "returned" /\ ret' = Error("FileNotFound")
    /\ UNCHANGED <<ColumnTypes, file, result, df, fret, fcall, acall>>

\* The source has no first line at all.
ReadHeaderEof ==
    /\ pc = "header"
    /\ pc' = "returned"
    /\ ret' = Error("InvalidFormat")
    /\ UNCHANGED <<ColumnTypes, file, result, df, fret, fcall, acall>>

\* The first line, split into the column names.
ReadHeader ==
    /\ pc = "header"
    /\ \E line \in HeaderLines :
          LET h == HeaderLoop(IStringStream(line), result.names_, 0)
              bad == line = <<>> \/ h.tooMany \/ h.col_idx # kColumnCount
          IN /\ file' = <<line>>
             /\ result' = IF line = <<>> THEN result ELSE [result EXCEPT !.names_ = h.names]
             /\ pc' = IF bad THEN "returned" ELSE "rows"
             /\ ret' = IF bad THEN Error("InvalidFormat") ELSE ret
    /\ UNCHANGED <<ColumnTypes, df, fret, fcall, acall>>

\* Mutant of ReadLine: a line that fails to parse is skipped, not fatal.
ReadLineSkipsBadLine(lines, limit) ==
    /\ pc = "rows"
    /\ Len(file) - 1 < limit
    /\ \E line \in lines :
          LET row == ParseRow(line, result.columns_)
          IN /\ file' = Append(file, line)
             /\ IF line = <<>>
                THEN UNCHANGED <<result, pc, ret>>
                ELSE IF ~row.parse_success
                THEN /\ result' = [result EXCEPT !.columns_ = row.columns]
                     /\ UNCHANGED <<pc, ret>>
                ELSE /\ result' = [result EXCEPT !.columns_ = row.columns,
                                                 !.row_count_ = @ + 1]
                     /\ UNCHANGED <<pc, ret>>
    /\ UNCHANGED <<ColumnTypes, df, fret, fcall, acall>>

\* One iteration of while (std::getline(file, line)) for a line of `lines`.
ReadLine(lines, limit) ==
    /\ pc = "rows"
    /\ Len(file) - 1 < limit
    /\ \E line \in lines :
          LET row == ParseRow(line, result.columns_)
          IN /\ file' = Append(file, line)
             /\ IF line = <<>>
                THEN UNCHANGED <<result, pc, ret>>
                ELSE IF ~row.parse_success
                THEN /\ result' = [result EXCEPT !.columns_ = row.columns]
                     /\ pc' = "returned"
                     /\ ret' = Error("ParseError")
                ELSE /\ result' = [result EXCEPT !.columns_ = row.columns,
                                                 !.row_count_ = @ + 1]
                     /\ UNCHANGED <<pc, ret>>
    /\ UNCHANGED <<ColumnTypes, df, fret, fcall, acall>>

\* std::getline(file, line) fails: the end of the file; the table built is
\* returned.
ReadEof ==
    /\ pc = "rows"
    /\ pc' = "returned"
    /\ ret' = Value(result)
    /\ UNCHANGED <<ColumnTypes, file, result, df, fret, fcall, acall>>

\* try_read_from_csv is left: its locals (the stream, the table it built) are
\* gone, and the caller moves a returned table into its own
\* (df = std::move(*result)).
Return ==
    /\ pc = "returned"
    /\ pc' = "done"
    /\ file' = <<>>
    /\ result' = EmptyTable
    /\ df' = IF ret.has_value THEN ret.value ELSE df
    /\ UNCHANGED <<ColumnTypes, ret, fret, fcall, acall>>

\* ---------------------------------------------------------- accessor layer
\* Mutant of Find: the last position carrying the name.
RECURSIVE FindLast(_, _, _)
FindLast(names, name, from) ==
    IF from > Len(names) THEN from
    ELSE LET later == FindLast(names, name, from + 1)
         IN IF later <= Len(names) THEN later
            ELSE IF names[from] = name THEN from ELSE later

\* std::find(names_.begin(), names_.end(), name): the first position
\* carrying the name, kColumnCount + 1 when none does.
RECURSIVE Find(_, _, _)
Find(names, name, from) ==
    IF from > Len(names) \/ names[from] = name THEN from ELSE Find(names, name, from + 1)

\* get_column_view<I>(): the view is the column's contents.
get_column_view_at(t, I) == t.columns_[I]

\* Mutant of get_column_view: the placeholder error of a type mismatch is
\* returned as it is.
get_column_view_placeholder(t, T, name) ==
    LET index == Find(t.names_, name, 1)
    IN IF index > kColumnCount \/ T # ColumnTypes[index]
       THEN [has_value |-> FALSE, value |-> <<>>, error |-> "ColumnNotFound"]
       ELSE [has_value |-> TRUE, value |-> t.columns_[index], error |-> "none"]

\* get_column_view<T>(name).
get_column_view(t, T, name) ==
    LET index == Find(t.names_, name, 1)
        found == IF T = ColumnTypes[index]
                 THEN Value(get_column_view_at(t, index))
                 ELSE Error("ColumnNotFound")
    IN IF index > kColumnCount THEN Error("ColumnNotFound")
       ELSE IF ~found.has_value /\ found.error = "ColumnNotFound" THEN Error("ParseError")
       ELSE found

\* ------------------------------------------------------------------ filter
\* Mutant of IndicesToKeep: the rows answered false are kept.
RECURSIVE IndicesToKeepNegated(_, _, _)
IndicesToKeepNegated(outcomes, i, row_count) ==
    IF i > row_count THEN <<>>
    ELSE (IF outcomes[i] THEN <<>> ELSE <<i>>)
         \o IndicesToKeepNegated(outcomes, i + 1, row_count)

\* Mutant of IndicesToKeep: the kept rows are collected last row first.
RECURSIVE IndicesToKeepReversed(_, _, _)
IndicesToKeepReversed(outcomes, i, row_count) ==
    IF i > row_count THEN <<>>
    ELSE IndicesToKeepReversed(outcomes, i + 1, row_count)
         \o (IF outcomes[i] THEN <<i>> ELSE <<>>)

\* indices_to_keep: the rows i (in increasing order) whose predicate call
\* returned true; outcomes[i] is what the call for row i returned.
RECURSIVE IndicesToKeep(_, _, _)
IndicesToKeep(outcomes, i, row_count) ==
    IF i > row_count THEN <<>>
    ELSE (IF outcomes[i] THEN <<i>> ELSE <<>>) \o IndicesToKeep(outcomes, i + 1, row_count)

\* Mutant of FilteredTable: result.names_ is left as default-constructed.
FilteredTableDefaultNames(t, indices_to_keep) ==
    [names_ |-> [i \in 1..kColumnCount |-> <<>>],
     row_count_ |-> Len(indices_to_keep),
     columns_ |-> [Is \in 1..kColumnCount |->
                     [k \in 1..Len(indices_to_keep) |-> t.columns_[Is][indices_to_keep[k]]]]]

\* Mutant of FilteredTable: row_count_ copied from the source table.
FilteredTableSourceCount(t, indices_to_keep) ==
    [names_ |-> t.names_,
     row_count_ |-> t.row_count_,
     columns_ |-> [Is \in 1..kColumnCount |->
                     [k \in 1..Len(indices_to_keep) |-> t.columns_[Is][indices_to_keep[k]]]]]

FilteredTable(t, indices_to_keep) ==
    [names_ |-> t.names_,
     row_count_ |-> Len(indices_to_keep),
     columns_ |-> [Is \in 1..kColumnCount |->
                     [k \in 1..Len(indices_to_keep) |-> t.columns_[Is][indices_to_keep[k]]]]]

\* t.filter<T>(column_name, predicate).
filter(t, T, column_name, outcomes) ==
    LET column_view_result == get_column_view(t, T, column_name)
    IN IF ~column_view_result.has_value THEN Error(column_view_result.error)
       ELSE Value(FilteredTable(t, IndicesToKeep(outcomes, 1, t.row_count_)))

\* Mutant of PredicateCalls: the predicate loop runs from the last row down
\* to the first.
PredicateCallsLastRowFirst(t, T, column_name) ==
    LET column_view_result == get_column_view(t, T, column_name)
    IN IF ~column_view_result.has_value THEN <<>>
       ELSE [k \in 1..t.row_count_ |->
               [i |-> t.row_count_ + 1 - k,
                arg |-> column_view_result.value[t.row_count_ + 1 - k]]]

\* Mutant of PredicateCalls: the predicate loop runs before the lookup's
\* result is looked at.
PredicateCallsBeforeLookup(t, T, column_name) ==
    [i \in 1..t.row_count_ |-> [i |-> i, arg |-> <<>>]]

\* The calls of the predicate, in call order: none when the lookup returns
\* early, then predicate(column_to_filter[i]) for i = 0 .. row_count_ - 1
\* (here 1 .. row_count_).
PredicateCalls(t, T, column_name) ==
    LET column_view_result == get_column_view(t, T, column_name)
    IN IF ~column_view_result.has_value THEN <<>>
       ELSE [i \in 1..t.row_count_ |-> [i |-> i, arg |-> column_view_result.value[i]]]

\* Mutant of get_row: every valid index yields the last row.
get_row_last(t, index) ==
    IF index >= t.row_count_ THEN [has_value |-> FALSE, value |-> <<>>,
                                   error |-> "RowIndexOutOfBounds"]
    ELSE [has_value |-> TRUE, error |-> "none",
          value |-> [Is \in 1..kColumnCount |-> t.columns_[Is][t.row_count_]]]

\* Mutant of get_row: the bound check is off by one, the last row is refused.
get_row_off_by_one(t, index) ==
    IF index + 1 >= t.row_count_ THEN [has_value |-> FALSE, value |-> <<>>,
                                       error |-> "RowIndexOutOfBounds"]
    ELSE [has_value |-> TRUE, error |-> "none",
          value |-> [Is \in 1..kColumnCount |-> t.columns_[Is][index + 1]]]

\* get_row(index), index counted from 0.
get_row(t, index) ==
    IF index >= t.row_count_ THEN Error("RowIndexOutOfBounds")
    ELSE Value([Is \in 1..kColumnCount |-> t.columns_[Is][index + 1]])

num_rows(t) == t.row_count_
num_cols(t) == kColumnCount
column_names(t) == t.names_

\* ------------------------------------------------------------------ caller
\* No filter call made yet, no accessor call made yet.
NoCall == [src |-> <<>>, column_name |-> <<>>, T |-> "none", outcomes |-> <<>>,
           calls |-> <<>>]
NoAccess == [op |-> "none", t |-> <<>>, arg |-> <<>>, T |-> "none", result |-> <<>>]

\* The tables the caller holds: the loaded one and the last filter's result.
Held == {df} \cup (IF fret.has_value THEN {fret.value} ELSE {})

\* The names a caller asks for: the table's own and one no header holds.
QueryNames(t) == {t.names_[i] : i \in 1..kColumnCount} \cup {<<"z">>}

\* The row indices a caller asks for: every row, the first index past the
\* rows and one beyond it.
QueryRows == 0..(MaxLines + 1)

\* Mutant of Filter: the source table is overwritten with the rows kept.
FilterInPlace ==
    /\ pc = "done"
    /\ ret.has_value
    /\ \E column_name \in QueryNames(df), T \in TypeNames :
          LET calls == PredicateCalls(df, T, column_name)
          IN \E outcomes \in [1..Len(calls) -> BOOLEAN] :
                /\ fret' = filter(df, T, column_name, outcomes)
                /\ fcall' = [src |-> df, column_name |-> column_name, T |-> T,
                             outcomes |-> outcomes, calls |-> calls]
                /\ df' = IF fret'.has_value THEN fret'.value ELSE df
    /\ acall' = NoAccess
    /\ UNCHANGED <<ColumnTypes, pc, file, result, ret>>

\* The caller filters a table it holds; outcomes[k] is what the k-th call
\* of the predicate returned.  What the caller read before was read from the
\* tables it held before.
Filter ==
    /\ pc = "done"
    /\ ret.has_value
    /\ \E t \in Held :
          \E column_name \in QueryNames(t), T \in TypeNames :
             LET calls == PredicateCalls(t, T, column_name)
             IN \E outcomes \in [1..Len(calls) -> BOOLEAN] :
                   /\ fret' = filter(t, T, column_name, outcomes)
                   /\ fcall' = [src |-> t, column_name |-> column_name, T |-> T,
                                outcomes |-> outcomes, calls |-> calls]
    /\ acall' = NoAccess
    /\ UNCHANGED <<ColumnTypes, pc, file, result, ret, df>>

\* The caller reads a table it holds through one of the const accessors.
\* fcall and acall record the caller's last call: one of them at a time.
Access ==
    /\ pc = "done"
    /\ ret.has_value
    /\ \E t \in Held :
          \/ \E index \in QueryRows :
                acall' = [op |-> "get_row", t |-> t, arg |-> index, T |-> "none",
                          result |-> get_row(t, index)]
          \/ \E I \in 1..kColumnCount :
                acall' = [op |-> "get_column_view_at", t |-> t, arg |-> I, T |-> "none",
                          result |-> get_column_view_at(t, I)]
          \/ \E name \in QueryNames(t), T \in TypeNames :
                acall' = [op |-> "get_column_view", t |-> t, arg |-> name, T |-> T,
                          result |-> get_column_view(t, T, name)]
          \/ acall' = [op |-> "column_names", t |-> t, arg |-> <<>>, T |-> "none",
                       result |-> column_names(t)]
          \/ acall' = [op |-> "num_rows", t |-> t, arg |-> <<>>, T |-> "none",
                       result |-> num_rows(t)]
          \/ acall' = [op |-> "num_cols", t |-> t, arg |-> <<>>, T |-> "none",
                       result |-> num_cols(t)]
    /\ fcall' = NoCall
    /\ UNCHANGED <<ColumnTypes, pc, file, result, ret, df, fret>>

\* ------------------------------------------------------------ specification

InitWith(schemas) ==
    /\ ColumnTypes \in schemas
    /\ pc = "open"
    /\ file = <<>>
    /\ result = EmptyTable
    /\ ret = NoReturn
    /\ df = EmptyTable
    /\ fret = NoReturn
    /\ fcall = NoCall
    /\ acall = NoAccess

Init == InitWith(Schemas)

\* A table whose header ("a", or "a,b") has been read: the next line is the
\* one data line of the file.
InitRow ==
    /\ ColumnTypes \in RowSchemas
    /\ pc = "rows"
    /\ file = <<IF Len(ColumnTypes) = 1 THEN <<"a">> ELSE <<"a", ",", "b">>>>
    /\ result = [EmptyTable EXCEPT !.names_ = IF Len(ColumnTypes) = 1
                                              THEN <<(<<"a">>)>>
                                              ELSE <<(<<"a">>), (<<"b">>)>>]
    /\ ret = NoReturn
    /\ df = EmptyTable
    /\ fret = NoReturn
    /\ fcall = NoCall
    /\ acall = NoAccess

Next ==
    \/ Open
    \/ ReadHeaderEof
    \/ ReadHeader
    \/ ReadLine(DataLines, MaxLines)
    \/ ReadEof
    \/ Return
    \/ Filter

Spec == Init /\ [][Next]_vars

\* The load of a file of AccessLines, the filters and the accessors.
NextAccess ==
    \/ Open
    \/ ReadHeaderEof
    \/ ReadHeader
    \/ ReadLine(AccessLines, MaxLines)
    \/ ReadEof
    \/ Return
    \/ Filter
    \/ Access

SpecAccess == Init /\ [][NextAccess]_vars

\* The load of a header and at most one data line over RowChars.
NextRow ==
    \/ ReadLine(RowLines, 1)
    \/ ReadEof
    \/ Return

SpecRow == InitRow /\ [][NextRow]_vars

\* ================================================================ claims
\* The fields of a line: the substrings between commas, empty ones included.
RECURSIVE Split(_)
Split(line) ==
    LET stop == ScanUntil(line, 1, {","})
    IN IF stop > Len(line) THEN <<line>>
       ELSE <<Slice(line, 1, stop)>> \o Split(Slice(line, stop + 1, Len(line) + 1))

\* The data lines read so far, and the non-empty ones among them.
DataLinesRead == SubSeq(file, 2, Len(file))
NonEmpty(line) == line # <<>>
NonEmptyLinesRead == SelectSeq(DataLinesRead, NonEmpty)

\* One column per schema position, one name per position, every column as
\* long as row_count_.
WellFormed(t) ==
    /\ Len(t.columns_) = Len(ColumnTypes)
    /\ Len(t.names_) = Len(ColumnTypes)
    /\ \A i \in 1..Len(ColumnTypes) : Len(t.columns_[i]) = t.row_count_

\* C1: the table a successful try_read_from_csv returns, the table the
\* caller holds after it, and the table of every successful filter on it
\* (any chain) have one column per schema position, each of length
\* row_count_.
C1_TablesWellFormed ==
    /\ ret.has_value => WellFormed(ret.value)
    /\ ret.has_value /\ pc = "done" => WellFormed(df)
    /\ fret.has_value => WellFormed(fret.value)

\* A second filter of a chain (its source is already smaller than the
\* loaded table) that keeps a row.
C1_Witness ==
    /\ ret.has_value
    /\ fret.has_value
    /\ fcall.src.row_count_ < ret.value.row_count_
    /\ fret.value.row_count_ >= 1

\* A data line the loader accepts, by the loader's own row parser.
LineParses(line) == ParseRow(line, EmptyTable.columns_).parse_success

\* C2: all-or-nothing.  When try_read_from_csv returns a table, the header
\* was accepted and every non-empty data line read parsed; when it returns
\* an error it returns no table and the caller's table stays as it was,
\* whatever had been appended to the columns being built.
C2_AllOrNothing ==
    /\ pc = "returned" /\ ret.has_value =>
          /\ Len(file) >= 1
          /\ \A k \in 2..Len(file) : file[k] = <<>> \/ LineParses(file[k])
          /\ ret.value = result
    /\ pc \in {"returned", "done"} /\ ~ret.has_value =>
          /\ ret.value = <<>>
          /\ ret.error \in {"FileNotFound", "InvalidFormat", "ParseError"}
          /\ df = EmptyTable

\* ParseError returned after a complete row and the first field of the
\* failing line had been appended.
C2_Witness ==
    /\ pc = "returned"
    /\ ret.error = "ParseError"
    /\ result.row_count_ = 1
    /\ Len(result.columns_[1]) = 2

\* C3: after a successful load num_rows() is the number of non-empty lines
\* after the header, num_cols() the schema's column count, and row r holds,
\* at every position, the value of that field of the r-th non-empty line.
C3_RowsAreNonEmptyLines ==
    pc = "returned" /\ ret.has_value =>
       /\ ret.value.row_count_ = Len(NonEmptyLinesRead)
       /\ Len(ret.value.columns_) = Len(ColumnTypes)
       /\ \A i \in 1..Len(ColumnTypes) :
             /\ Len(ret.value.columns_[i]) = Len(NonEmptyLinesRead)
             /\ \A r \in 1..Len(NonEmptyLinesRead) :
                   ret.value.columns_[i][r] =
                      parse_value(ColumnTypes[i], Split(NonEmptyLinesRead[r])[i]).value

\* Two different rows loaded, in the order of their lines.
C3_Witness ==
    /\ pc = "returned"
    /\ ret.has_value
    /\ ret.value.row_count_ = 2
    /\ ret.value.columns_[1][1] # ret.value.columns_[1][2]

\* C4: a header whose number of comma-separated fields differs from the
\* schema's column count makes try_read_from_csv fail with InvalidFormat.
C4_HeaderFieldCount ==
    Len(file) >= 1 /\ Len(Split(file[1])) # Len(ColumnTypes) =>
       ~ret.has_value /\ ret.error = "InvalidFormat"

\* C5: a non-empty data line holding more comma-separated fields than the
\* schema has columns makes try_read_from_csv fail with ParseError.
C5_ExtraContentRejected ==
    \A k \in 2..Len(file) :
       file[k] # <<>> /\ Len(Split(file[k])) > Len(ColumnTypes) =>
          ~ret.has_value /\ ret.error = "ParseError"

\* C6: a non-empty data line holding fewer comma-separated fields than the
\* schema has columns makes try_read_from_csv fail with ParseError.
C6_ShortRowRejected ==
    \A k \in 2..Len(file) :
       file[k] # <<>> /\ Len(Split(file[k])) < Len(ColumnTypes) =>
          ~ret.has_value /\ ret.error = "ParseError"

\* A short row whose first field parsed and was appended before the missing
\* second field ended the load.
C6_Witness ==
    /\ pc = "returned"
    /\ ret.error = "ParseError"
    /\ Len(file) >= 2
    /\ Len(Split(file[Len(file)])) < Len(ColumnTypes)
    /\ Len(result.columns_[1]) = result.row_count_ + 1

\* The fields of a line at the non-text positions all parse.
NumericFieldsParse(fields) ==
    \A i \in 1..Len(ColumnTypes) :
       ColumnTypes[i] # "string" => parse_value(ColumnTypes[i], fields[i]).has_value

\* C7: a data line with exactly one field per schema position whose numeric
\* fields parse is accepted whatever its text fields hold (the empty string
\* included), and a loaded table stores each text field verbatim.
C7_TextVerbatim ==
    /\ \A k \in 2..Len(file) :
          (/\ file[k] # <<>>
           /\ Len(Split(file[k])) = Len(ColumnTypes)
           /\ NumericFieldsParse(Split(file[k]))) => ret.error # "ParseError"
    /\ pc = "returned" /\ ret.has_value =>
          \A i \in 1..Len(ColumnTypes) : \A r \in 1..Len(NonEmptyLinesRead) :
             ColumnTypes[i] = "string" =>
                ret.value.columns_[i][r] = Split(NonEmptyLinesRead[r])[i]

\* An optional '-' and at least one decimal digit, nothing else.
WholeNumber(s) ==
    LET digits == IF s # <<>> /\ s[1] = "-" THEN Tail(s) ELSE s
    IN digits # <<>> /\ \A i \in 1..Len(digits) : digits[i] \in DigitChars

NumberValue(s) == IF s[1] = "-" THEN 0 - DigitsValue(Tail(s)) ELSE DigitsValue(s)

\* The field is, from its first to its last character, a whole number of
\* the column's type (int8_t).
WholeNumberOfType(s) ==
    WholeNumber(s) /\ NumberValue(s) >= Int8Min /\ NumberValue(s) <= Int8Max

\* The one data line read, when it is not empty, and its fields.
OneLine == Len(file) = 2 /\ file[2] # <<>>
Fields == Split(file[2])

\* C8: a data line is accepted only if every field of an integer column is,
\* over its whole span, a whole number of the column's type, and then that
\* number is what is stored; a line whose integer field is empty, missing,
\* partly numeric, padded with whitespace or out of range fails with
\* ParseError.
C8_IntegerFullSpan ==
    OneLine =>
       \A i \in 1..Len(ColumnTypes) :
          ColumnTypes[i] = "int8" =>
             /\ (i > Len(Fields) \/ ~WholeNumberOfType(Fields[i])) =>
                   ~ret.has_value /\ ret.error = "ParseError"
             /\ result.row_count_ = 1 =>
                   /\ WholeNumberOfType(Fields[i])
                   /\ result.columns_[i] = <<NumberValue(Fields[i])>>

\* A field that starts with a number from_chars converts, followed by more:
\* the partial parse is rejected.
C8_Witness ==
    /\ OneLine
    /\ ColumnTypes = <<"int8">>
    /\ FromChars(file[2]).ec = "ok"
    /\ FromChars(file[2]).ptr <= Len(file[2])
    /\ ret.error = "ParseError"

\* A decimal or scientific numeral from the first to the last character: an
\* optional sign, digits with an optional '.', an optional exponent.
NumeralSpan(s) ==
    LET signed == s # <<>> /\ s[1] \in {"-", "+"}
        n == ScanNumeral(s, IF signed THEN 2 ELSE 1, FALSE)
    IN s # <<>> /\ n.end = Len(s) + 1 /\ ~n.value.nan

\* C9: a data line is accepted only if every field of a floating-point
\* column is, from its first to its last character, a decimal or scientific
\* numeral in range.
C9_FloatFullSpan ==
    OneLine /\ result.row_count_ = 1 =>
       \A i \in 1..Len(ColumnTypes) :
          ColumnTypes[i] = "float" => NumeralSpan(Fields[i])

\* C10: after a successful load column_names() is exactly the sequence of
\* the header's fields, and a file that is only a header loads with no rows
\* and empty columns.
C10_NamesAreHeaderFields ==
    pc = "returned" /\ ret.has_value =>
       /\ ret.value.names_ = Split(file[1])
       /\ Len(file) = 1 =>
             /\ ret.value.row_count_ = 0
             /\ \A i \in 1..Len(ColumnTypes) : ret.value.columns_[i] = <<>>

\* ------------------------------------------------------------- accessors
\* C11: for every table held, the positional view of column i has num_rows()
\* elements and its element r is component i of get_row(r): a row returned
\* by get_row agrees with every view, and a view returned by
\* get_column_view<i>() agrees with every row.
C11_ViewRowConsistent ==
    /\ acall.op = "get_row" /\ acall.result.has_value =>
          /\ Len(acall.result.value) = num_cols(acall.t)
          /\ \A i \in 1..kColumnCount :
                get_column_view_at(acall.t, i)[acall.arg + 1] = acall.result.value[i]
    /\ acall.op = "get_column_view_at" =>
          /\ Len(acall.result) = num_rows(acall.t)
          /\ \A r \in 0..(num_rows(acall.t) - 1) :
                /\ get_row(acall.t, r).has_value
                /\ acall.result[r + 1] = get_row(acall.t, r).value[acall.arg]

\* get_row(0) on a table of two rows that differ in their second column.
C11_Witness ==
    /\ acall.op = "get_row"
    /\ acall.arg = 0
    /\ acall.result.has_value
    /\ acall.t.row_count_ = 2
    /\ acall.t.columns_[2][1] # acall.t.columns_[2][2]

\* C12: get_row(index) succeeds exactly when index < num_rows() and fails
\* with RowIndexOutOfBounds otherwise; on every table held get_row(num_rows())
\* fails and get_row(num_rows() - 1) succeeds when there is a row.
C12_RowIndexBounds ==
    /\ acall.op = "get_row" =>
          /\ acall.result.has_value <=> acall.arg < num_rows(acall.t)
          /\ ~acall.result.has_value => acall.result = Error("RowIndexOutOfBounds")
          /\ num_rows(acall.t) = 0 => ~acall.result.has_value
    /\ pc = "done" /\ ret.has_value =>
          \A t \in Held :
             /\ get_row(t, num_rows(t)) = Error("RowIndexOutOfBounds")
             /\ num_rows(t) > 0 => get_row(t, num_rows(t) - 1).has_value

\* The boundary: get_row(num_rows()) refused on a table of two rows.
C12_Witness ==
    /\ acall.op = "get_row"
    /\ num_rows(acall.t) = 2
    /\ acall.arg = 2
    /\ ~acall.result.has_value

\* The positions of t whose column carries the name.
Carriers(t, name) == {i \in 1..kColumnCount : t.names_[i] = name}

\* C13: get_column_view<T>(name) fails with ColumnNotFound when no column
\* carries the name, fails with ParseError when the name is carried only by
\* columns of another type than T, and succeeds when the name is carried only
\* by columns of type T; a view it returns is the positional view of a column
\* of type T carrying the name.
C13_ViewByName ==
    acall.op = "get_column_view" =>
       LET carriers == Carriers(acall.t, acall.arg)
       IN /\ carriers = {} => acall.result = Error("ColumnNotFound")
          /\ carriers # {} /\ (\A i \in carriers : ColumnTypes[i] # acall.T) =>
                acall.result = Error("ParseError")
          /\ carriers # {} /\ (\A i \in carriers : ColumnTypes[i] = acall.T) =>
                acall.result.has_value
          /\ acall.result.has_value =>
                \E i \in carriers :
                   /\ ColumnTypes[i] = acall.T
                   /\ Len(acall.result.value) = Len(get_column_view_at(acall.t, i))
                   /\ acall.result.value = get_column_view_at(acall.t, i)

\* A name carried by a column of another type: the lookup that must give
\* ParseError.
C13_Witness ==
    /\ acall.op = "get_column_view"
    /\ Carriers(acall.t, acall.arg) # {}
    /\ \A i \in Carriers(acall.t, acall.arg) : ColumnTypes[i] # acall.T
    /\ acall.t.row_count_ = 2

\* ---------------------------------------------------------------- filter
\* The rows of the filtered table for which the recorded call of the
\* predicate, made on the row's value in the named column, returned true.
Satisfying(call) ==
    {call.calls[k].i : k \in {j \in 1..Len(call.calls) : call.outcomes[j]}}

\* The k-th smallest element of a set of row numbers.
Nth(S, k) == CHOOSE r \in S : Cardinality({q \in S : q <= r}) = k

\* C14: a successful filter<T>(col, p) calls p on the value each row of its
\* source t has in column col; its result has as many rows as t has rows
\* satisfying p, its k-th row is the k-th satisfying row of t in every
\* column; a predicate true everywhere gives the rows of t, and a source of
\* zero rows a result of zero rows.
C14_FilterKeepsSatisfyingRows ==
    fret.has_value =>
       LET t == fcall.src
           S == Satisfying(fcall)
       IN /\ \E c \in Carriers(t, fcall.column_name) :
                /\ ColumnTypes[c] = fcall.T
                /\ \A k \in 1..Len(fcall.calls) :
                      fcall.calls[k].arg = t.columns_[c][fcall.calls[k].i]
          /\ S \subseteq 1..num_rows(t)
          /\ num_rows(fret.value) = Cardinality(S)
          /\ \A k \in 1..Cardinality(S) :
                get_row(fret.value, k - 1) = get_row(t, Nth(S, k) - 1)
          /\ S = 1..num_rows(t) => fret.value.columns_ = t.columns_
          /\ num_rows(t) = 0 => num_rows(fret.value) = 0

\* Two rows that differ, both kept: the order of the result is at stake.
C14_Witness ==
    /\ fret.has_value
    /\ num_rows(fcall.src) = 2
    /\ fcall.outcomes = <<TRUE, TRUE>>
    /\ get_row(fcall.src, 0) # get_row(fcall.src, 1)
    /\ num_rows(fret.value) = 2

\* The recorded outcomes are those of a pure predicate: equal arguments got
\* equal answers.
Pure(call) ==
    \A j, k \in 1..Len(call.calls) :
       call.calls[j].arg = call.calls[k].arg => call.outcomes[j] = call.outcomes[k]

\* The predicate of a call holds on a value it was called on.
Holds(call, v) ==
    \E k \in 1..Len(call.calls) : call.calls[k].arg = v /\ call.outcomes[k]

\* The column of type T carrying the name.
ColumnOf(t, call) ==
    CHOOSE c \in Carriers(t, call.column_name) : ColumnTypes[c] = call.T

\* The rows of t on which the first call's predicate holds in its column and
\* the second call's predicate holds in its column.
BothHold(t, first, second) ==
    {r \in 1..num_rows(t) :
        /\ Holds(first, t.columns_[ColumnOf(t, first)][r])
        /\ Holds(second, t.columns_[ColumnOf(t, second)][r])}

\* C15: when a successful filter(b, pb) is applied to the result of a
\* successful filter(a, pa) on t, both predicates pure, its result holds
\* exactly the rows of t on which pa holds in column a and pb holds in column
\* b, in the order of t.
C15_ChainIsConjunction ==
    [][(/\ fret.has_value
        /\ fret'.has_value
        /\ fcall'.src = fret.value
        /\ Pure(fcall)
        /\ Pure(fcall'))
       => LET t == fcall.src
              S == BothHold(t, fcall, fcall')
          IN /\ num_rows(fret'.value) = Cardinality(S)
             /\ \A k \in 1..Cardinality(S) :
                   get_row(fret'.value, k - 1) = get_row(t, Nth(S, k) - 1)]_vars

\* The second filter of a chain, on another column than the first column of
\* the table: its source has lost a row of the loaded table and it keeps one.
C15_Witness ==
    /\ fret.has_value
    /\ num_rows(df) = 2
    /\ num_rows(fcall.src) = 1
    /\ fcall.column_name = df.names_[2]
    /\ df.names_[1] # df.names_[2]
    /\ num_rows(fret.value) = 1

\* C16: the table of a successful filter has the schema of its source: the
\* same num_cols(), one column per position, and the source's column_names()
\* in the same order, whatever the number of rows kept.
C16_FilterKeepsSchema ==
    fret.has_value =>
       /\ num_cols(fret.value) = num_cols(fcall.src)
       /\ Len(fret.value.columns_) = Len(fcall.src.columns_)
       /\ column_names(fret.value) = column_names(fcall.src)

\* A predicate that matches none of the two rows of a table with named
\* columns.
C16_Witness ==
    /\ fret.has_value
    /\ num_rows(fcall.src) = 2
    /\ fcall.outcomes = <<FALSE, FALSE>>
    /\ num_rows(fret.value) = 0
    /\ column_names(fret.value) = <<(<<"a">>), (<<"b">>)>>

\* C17: when get_column_view<T>(name) fails on the table filtered,
\* filter<T>(name, p) returns that same error (ColumnNotFound for a name no
\* column carries, ParseError for a name carried by columns of another
\* type), returns no table, and p has not been called.
C17_FilterLookupError ==
    fcall # NoCall =>
       LET looked == get_column_view(fcall.src, fcall.T, fcall.column_name)
           carriers == Carriers(fcall.src, fcall.column_name)
       IN /\ fret.has_value <=> looked.has_value
          /\ ~looked.has_value =>
                /\ fret = Error(looked.error)
                /\ fret.value = <<>>
                /\ fcall.calls = <<>>
                /\ carriers = {} => fret.error = "ColumnNotFound"
                /\ carriers # {} => fret.error = "ParseError"

\* A filter on a column of another type, on a table of two rows.
C17_Witness ==
    /\ fcall # NoCall
    /\ fret = Error("ParseError")
    /\ num_rows(fcall.src) = 2

\* ------------------------------------------------------------------ frame
\* C18: once the caller holds the loaded table, no accessor call and no
\* filter call changes it (names, columns, row count); an accessor call
\* (a step that ends with a call recorded in acall) is made on a table held
\* and changes neither table held; a filter call (any other step) reads a
\* table held, and since its result is a value of its own, replacing the
\* filtered table later leaves the loaded one as it was.
C18_OperationsLeaveTables ==
    [][pc = "done" /\ pc' = "done" =>
          /\ df' = df
          /\ acall'.op # "none" =>
                /\ fret' = fret
                /\ acall'.t \in Held'
          /\ acall'.op = "none" => fcall'.src \in Held]_vars

\* The caller holds a filtered table that lost a row of the loaded table of
\* two rows, and the loaded table still answers get_row for its last row.
C18_Witness ==
    /\ fret.has_value
    /\ num_rows(df) = 2
    /\ num_rows(fret.value) = 1
    /\ acall.op = "get_row"
    /\ acall.t = df
    /\ acall.arg = 1
    /\ acall.result.has_value

\* ---------------------------------------------------------------- creation
\* C19: once try_read_from_csv has returned, the table the caller holds is
\* the table a successful try_read_from_csv returned or the table a
\* successful filter returned.
C19_TablesFromLoadOrFilter ==
    pc = "done" =>
       \/ ret.has_value /\ df = ret.value
       \/ fret.has_value /\ df = fret.value

\* ------------------------------------------------------------------ stages
\* A first line that is no header for this schema: empty, or not exactly
\* kColumnCount comma-separated fields.
HeaderFails(line) == line = <<>> \/ Len(Split(line)) # kColumnCount

\* C20: when try_read_from_csv returns, the error names the first stage
\* that failed.  FileNotFound: nothing was read.  InvalidFormat: the source
\* was empty or its first line is no header, and no data line was read; a
\* first line that is no header gives InvalidFormat whatever follows it.
\* ParseError: the header was accepted, the last line read is a data line
\* that fails and every data line before it was accepted.
C20_FirstFailingStage ==
    pc = "returned" =>
       /\ ret.error = "FileNotFound" => file = <<>>
       /\ file = <<>> => ret.error \in {"FileNotFound", "InvalidFormat"}
       /\ file # <<>> /\ HeaderFails(file[1]) =>
             ret = Error("InvalidFormat") /\ Len(file) = 1
       /\ ret.error = "InvalidFormat" =>
             Len(file) <= 1 /\ (file = <<>> \/ HeaderFails(file[1]))
       /\ ret.error = "ParseError" =>
             /\ Len(file) >= 2
             /\ ~HeaderFails(file[1])
             /\ ~LineParses(file[Len(file)])
             /\ \A k \in 2..(Len(file) - 1) : file[k] = <<>> \/ LineParses(file[k])

\* ------------------------------------------------------- predicate calls
\* The rows whose call of the predicate returned true, by call number.
KeptByOutcome(call) == {r \in 1..Len(call.outcomes) : call.outcomes[r]}

\* C21: a successful filter has called the predicate exactly once per row
\* of its source, the k-th call on row k (first row first, last row last);
\* its result is fixed by the recorded outcomes alone: row r is kept exactly
\* when the r-th call returned true, whether or not equal arguments got
\* equal answers.
C21_PredicateOncePerRowInOrder ==
    fret.has_value =>
       LET t == fcall.src
           kept == KeptByOutcome(fcall)
       IN /\ Len(fcall.calls) = num_rows(t)
          /\ Len(fcall.outcomes) = num_rows(t)
          /\ \A k \in 1..Len(fcall.calls) : fcall.calls[k].i = k
          /\ num_rows(fret.value) = Cardinality(kept)
          /\ \A k \in 1..Cardinality(kept) :
                \A c \in 1..kColumnCount :
                   get_column_view_at(fret.value, c)[k]
                      = get_column_view_at(t, c)[Nth(kept, k)]

\* An impure predicate: called on two rows with the same value it answered
\* false, then true, and the second row alone is kept.
C21_Witness ==
    /\ fret.has_value
    /\ num_rows(fcall.src) = 2
    /\ fcall.calls[1].arg = fcall.calls[2].arg
    /\ fcall.outcomes = <<FALSE, TRUE>>
    /\ num_rows(fret.value) = 1

\* ---------------------------------------------------------- repeated names
\* The lowest position of t whose column carries the name.
FirstCarrier(t, name) ==
    CHOOSE i \in Carriers(t, name) : \A j \in Carriers(t, name) : i <= j

\* C22: a name carried by some column is resolved to the lowest position
\* carrying it.  get_column_view<T>(name) succeeds exactly when that column
\* has type T, with that column's view, and gives ParseError otherwise;
\* filter<T>(name, p) succeeds exactly when that column has type T, calling
\* p on that column's values, and gives ParseError otherwise; a later column
\* of type T with the same name changes nothing.
C22_FirstNamedColumn ==
    /\ acall.op = "get_column_view" /\ Carriers(acall.t, acall.arg) # {} =>
          LET first == FirstCarrier(acall.t, acall.arg)
          IN /\ acall.result.has_value <=> ColumnTypes[first] = acall.T
             /\ acall.result.has_value =>
                   acall.result.value = get_column_view_at(acall.t, first)
             /\ ~acall.result.has_value => acall.result = Error("ParseError")
    /\ fcall.T # "none" /\ Carriers(fcall.src, fcall.column_name) # {} =>
          LET first == FirstCarrier(fcall.src, fcall.column_name)
          IN /\ fret.has_value <=> ColumnTypes[first] = fcall.T
             /\ fret.has_value =>
                   \A k \in 1..Len(fcall.calls) :
                      fcall.calls[k].arg
                         = get_column_view_at(fcall.src, first)[fcall.calls[k].i]
             /\ ~fret.has_value => fret = Error("ParseError")

\* A name carried by two columns, asked for with the type of the second:
\* the view by name is refused on a table with rows.
C22_Witness ==
    /\ acall.op = "get_column_view"
    /\ Carriers(acall.t, acall.arg) = {1, 2}
    /\ ColumnTypes[2] = acall.T
    /\ ColumnTypes[1] # acall.T
    /\ num_rows(acall.t) >= 1
    /\ acall.result = Error("ParseError")

====
